---- MODULE Spec2Model ----
(***************************************************************************)
(* Model of package mem (src/mem/meminfo.go): the one-shot scan GetInfo,   *)
(* the flatbuffers encoding of an Info, and the ticker loop DataTicker      *)
(* with its channels, its reused builder and its reused scratch variables.  *)
(*                                                                          *)
(* Bytes are one-character strings, a byte slice is a sequence of them and  *)
(* positions are Go's (0-based): At(s, k) is s[k], Slice(s, a, b) is s[a:b].*)
(***************************************************************************)
EXTENDS Integers, Sequences, FiniteSets, TLC

\* ---------------------------------------------------------------- bounds

\* Number of ticks the ticker delivers in one session.
MaxTicks == 3

\* Number of ticks of one session on which os.Open succeeds.
MaxOpens == 2

\* ---------------------------------------------------------------- bytes

At(s, k) == s[k + 1]

Slice(s, a, b) == SubSeq(s, a + 1, b)

Min(S) == CHOOSE x \in S : \A y \in S : x <= y

Digits == {"0", "1", "2", "3", "4", "5", "6", "7", "8", "9"}

DigitVal(c) ==
  CASE c = "0" -> 0 [] c = "1" -> 1 [] c = "2" -> 2 [] c = "3" -> 3
    [] c = "4" -> 4 [] c = "5" -> 5 [] c = "6" -> 6 [] c = "7" -> 7
    [] c = "8" -> 8 [] c = "9" -> 9

\* bytes.IndexByte(buf[p:], c): the offset of the first c at or after p, or -1.
IndexByte(buf, p, c) ==
  LET S == {k \in p..(Len(buf) - 1) : At(buf, k) = c}
  IN  IF S = {} THEN -1 ELSE Min(S) - p

\* ---------------------------------------------------------------- labels

memTotal == <<"M", "e", "m", "T", "o", "t", "a", "l">>
memFree == <<"M", "e", "m", "F", "r", "e", "e">>
memAvailable == <<"M", "e", "m", "A", "v", "a", "i", "l", "a", "b", "l", "e">>
buffers == <<"B", "u", "f", "f", "e", "r", "s">>
cached == <<"C", "a", "c", "h", "e", "d">>
swapCached == <<"S", "w", "a", "p", "C", "a", "c", "h", "e", "d">>
active == <<"A", "c", "t", "i", "v", "e">>
inactive == <<"I", "n", "a", "c", "t", "i", "v", "e">>
swapTotal == <<"S", "w", "a", "p", "T", "o", "t", "a", "l">>
swapFree == <<"S", "w", "a", "p", "F", "r", "e", "e">>

\* The fields of Info other than Timestamp, in declaration order.
MemFields ==
  <<"MemTotal", "MemFree", "MemAvailable", "Buffers", "Cached",
    "SwapCached", "Active", "Inactive", "SwapTotal", "SwapFree">>

\* The slots of the flatbuffers table Data, in schema order.
Slots == <<"Timestamp">> \o MemFields

SlotSet == {Slots[k] : k \in 1..Len(Slots)}

\* Info{}: every field zero.
Info == [f \in SlotSet |-> 0]

\* ---------------------------------------------------------------- numbers

\* The value of a run of decimal digits.
DecValue(ds) ==
  LET dv[n \in 0..Len(ds)] ==
        IF n = 0 THEN 0 ELSE 10 * dv[n - 1] + DigitVal(ds[n])
  IN  dv[Len(ds)]

\* A run of digits without its leading zeros.
StripZeros(ds) ==
  LET NZ == {k \in 1..Len(ds) : ds[k] # "0"}
  IN  IF NZ = {} THEN <<>> ELSE SubSeq(ds, Min(NZ), Len(ds))

\* a <= b for two digit runs without leading zeros.
NumLE(a, b) ==
  \/ Len(a) < Len(b)
  \/ /\ Len(a) = Len(b)
     /\ LET D == {k \in 1..Len(a) : a[k] # b[k]}
        IN  D = {} \/ DigitVal(a[Min(D)]) < DigitVal(b[Min(D)])

\* 1<<63 - 1 and 1<<63, the bounds of int on a 64-bit build, and 1<<64 - 1.
MaxInt64 ==
  <<"9", "2", "2", "3", "3", "7", "2", "0", "3", "6",
    "8", "5", "4", "7", "7", "5", "8", "0", "7">>
MinInt64Abs ==
  <<"9", "2", "2", "3", "3", "7", "2", "0", "3", "6",
    "8", "5", "4", "7", "7", "5", "8", "0", "8">>
MaxUint64 ==
  <<"1", "8", "4", "4", "6", "7", "4", "4", "0", "7",
    "3", "7", "0", "9", "5", "5", "1", "6", "1", "5">>

AllDigits(s) == \A k \in 1..Len(s) : s[k] \in Digits

\* strconv.Atoi(string(val)): [err, v]; err is "" on success, "syntax" for an
\* empty or non-numeric string, "range" for a value outside int.
Atoi(s) ==
  LET neg == s # <<>> /\ s[1] = "-"
      signed == s # <<>> /\ s[1] \in {"-", "+"}
      ds == IF signed THEN Tail(s) ELSE s
  IN  IF ds = <<>> \/ ~AllDigits(ds) THEN [err |-> "syntax", v |-> 0]
      ELSE IF ~NumLE(StripZeros(ds), IF neg THEN MinInt64Abs ELSE MaxInt64)
        THEN [err |-> "range", v |-> 0]
      ELSE [err |-> "", v |-> IF neg THEN 0 - DecValue(ds) ELSE DecValue(ds)]

\* ParseUint with the empty run of digits read as 0.
ParseUint_EmptyIsZero(s) ==
  IF s = <<>> THEN [err |-> "", v |-> 0]
  ELSE IF ~AllDigits(s) THEN [err |-> "syntax", v |-> 0]
  ELSE IF ~NumLE(StripZeros(s), MaxUint64) THEN [err |-> "range", v |-> 0]
  ELSE [err |-> "", v |-> DecValue(s)]

\* helpers.ParseUint(buf[p:i]) on a run of digits: as strconv.ParseUint in
\* base 10 with 64 bits.
ParseUint(s) ==
  IF s = <<>> \/ ~AllDigits(s) THEN [err |-> "syntax", v |-> 0]
  ELSE IF ~NumLE(StripZeros(s), MaxUint64) THEN [err |-> "range", v |-> 0]
  ELSE [err |-> "", v |-> DecValue(s)]

\* ---------------------------------------------------------------- source

Sp(n) == [k \in 1..n |-> " "]

\* A line "label:<n spaces>digits kB\n" of /proc/meminfo.
KvLine(label, n, digits) ==
  label \o <<":">> \o Sp(n) \o digits \o <<" ", "k", "B", "\n">>

unknownLabel == <<"D", "i", "r", "t", "y">>
activeAnon == active \o <<"(", "a", "n", "o", "n", ")">>
inactiveAnon == inactive \o <<"(", "a", "n", "o", "n", ")">>
activeFile == active \o <<"(", "f", "i", "l", "e", ")">>
inactiveFile == inactive \o <<"(", "f", "i", "l", "e", ")">>
unevictable == <<"U", "n", "e", "v", "i", "c", "t", "a", "b", "l", "e">>
mlocked == <<"M", "l", "o", "c", "k", "e", "d">>

\* The buffer of the end-to-end example.
SrcExample ==
  KvLine(memTotal, 4, <<"1", "6", "3", "8", "4", "0", "0", "0">>)
    \o KvLine(memFree, 5, <<"5", "1", "2", "0", "0", "0">>)
    \o KvLine(cached, 6, <<"2", "0", "4", "8", "0", "0", "0">>)

\* The first lines of /proc/meminfo as the kernel writes them.
SrcProcHead ==
  KvLine(memTotal, 4, <<"9", "1">>) \o KvLine(memFree, 5, <<"9", "2">>)

SrcProcRest ==
  KvLine(memAvailable, 1, <<"9", "3">>) \o KvLine(buffers, 5, <<"9", "4">>)
    \o KvLine(cached, 6, <<"9", "5">>) \o KvLine(swapCached, 2, <<"9", "6">>)
    \o KvLine(active, 6, <<"9", "7">>) \o KvLine(inactive, 4, <<"9", "8">>)
    \o KvLine(activeAnon, 1, <<"2", "1">>) \o KvLine(inactiveAnon, 1, <<"2", "2">>)
    \o KvLine(activeFile, 1, <<"2", "3">>) \o KvLine(inactiveFile, 1, <<"2", "4">>)
    \o KvLine(unevictable, 1, <<"2", "5">>) \o KvLine(mlocked, 5, <<"2", "6">>)
    \o KvLine(swapTotal, 3, <<"8", "1">>) \o KvLine(swapFree, 4, <<"8", "2">>)
    \o KvLine(unknownLabel, 7, <<"3", "3">>)

SrcProc == SrcProcHead \o SrcProcRest

\* SrcProc with a line of an unknown label after its second line.
SrcProcUnknown ==
  SrcProcHead \o KvLine(unknownLabel, 7, <<"3", "3">>) \o SrcProcRest

\* Lines whose label is followed by no digits.
SrcNoDigits ==
  KvLine(memTotal, 1, <<"1", "6">>) \o KvLine(memFree, 1, <<>>)
    \o KvLine(buffers, 1, <<"3">>) \o KvLine(swapFree, 1, <<>>)

\* A value too large for 64 bits.
SrcTooLarge ==
  KvLine(memTotal, 1, <<"1", "6">>)
    \o KvLine(memFree, 1, [k \in 1..20 |-> "9"])
    \o KvLine(buffers, 1, <<"3">>)

\* A line without ':' that is shorter than the line before it.
SrcNoColon == KvLine(memTotal, 4, <<"1", "6">>) \o <<"x", "\n">>

\* The last line has no line terminator.
SrcNoNewline ==
  KvLine(memTotal, 1, <<"1", "6">>) \o memFree \o <<":", " ", "5", " ", "k", "B">>

\* A label twice, the second time with the value 0.
SrcDupZero == KvLine(memFree, 1, <<"5">>) \o KvLine(memFree, 1, <<"0">>)

\* The contents /proc/meminfo takes while DataTicker runs.
Sources ==
  <<SrcExample, SrcProc, SrcProcUnknown, SrcNoDigits, SrcTooLarge,
    SrcNoColon, SrcNoNewline, SrcDupZero>>

SourceIds == 1..Len(Sources)

\* The buffer ends right after a ':'.
SrcColonEnd == KvLine(memTotal, 1, <<"1", "6">>) \o memFree \o <<":">>

\* The empty file.
SrcEmpty == <<>>

\* The contents ioutil.ReadFile returns to GetInfo.
OneShotSources == Sources \o <<SrcColonEnd, SrcEmpty>>

OneShotIds == 1..Len(OneShotSources)

\* ---------------------------------------------------------------- GetInfo

Nil == <<>>

\* The switch of GetInfo: the field a label sets, "" for an unknown label.
GetInfoField(name) ==
  CASE name = memTotal -> "MemTotal"
    [] name = memFree -> "MemFree"
    [] name = memAvailable -> "MemAvailable"
    [] name = buffers -> "Buffers"
    [] name = cached -> "Cached"
    [] name = swapCached -> "SwapCached"
    [] name = active -> "Active"
    [] name = inactive -> "Inactive"
    [] name = swapTotal -> "SwapTotal"
    [] name = swapFree -> "SwapFree"
    [] OTHER -> ""

\* One iteration of the for loop of GetInfo at position p with the fields f
\* set so far: [st, err, p, f]; st is "break" (no ':' is left), "err"
\* (ParseUint failed) or "next" (the loop goes on at the new p with the new f).
GetInfoStep(buf, p, f) ==
  LET o == IndexByte(buf, p, ":")
  IN  IF o < 0 THEN [st |-> "break", err |-> "", p |-> p, f |-> f]
      ELSE
        LET colon == p + o
            name == Slice(buf, p, colon)
            NS == {k \in (colon + 1)..(Len(buf) - 1) : At(buf, k) # " "}
            i1 == IF NS # {} THEN Min(NS) ELSE Len(buf) - 1
            ND == {k \in i1..(Len(buf) - 1) : At(buf, k) \notin Digits}
            i2 == IF ND # {} THEN Min(ND) ELSE Len(buf)
            r == ParseUint(Slice(buf, i1, i2))
            p2 == i2 + IndexByte(buf, i2, "\n") + 1
            fld == GetInfoField(name)
        IN  IF r.err # "" THEN [st |-> "err", err |-> r.err, p |-> i1, f |-> f]
            ELSE [st |-> "next", err |-> "", p |-> p2,
                  f |-> IF fld = "" THEN f ELSE [f EXCEPT ![fld] = r.v]]

\* The scan loop of GetInfo from position p with the fields f set so far:
\* [err, info], info being <<f>> or Nil.
RECURSIVE GetInfoScan(_, _, _)
GetInfoScan(buf, p, f) ==
  LET r == GetInfoStep(buf, p, f)
  IN  CASE r.st = "break" -> [err |-> "", info |-> <<f>>]
        [] r.st = "err" -> [err |-> r.err, info |-> Nil]
        [] OTHER -> GetInfoScan(buf, r.p, r.f)

\* GetInfo() when ioutil.ReadFile fails (readErr) or returns buf, at time now.
GetInfo(readErr, buf, now) ==
  IF readErr THEN [err |-> "read", info |-> Nil]
  ELSE GetInfoScan(buf, 0, [Info EXCEPT !.Timestamp = now])

\* GetInfo() over each content of Sources, read without error at time 0.
GetInfoOf == [s \in SourceIds |-> GetInfo(FALSE, Sources[s], 0)]

\* ---------------------------------------------------------------- codec

\* A flatbuffers builder: Bytes is its backing array, one element per
\* written word, element 1 being the word written first (the end of the
\* array); head counts the words of the object under construction, so that
\* Bytes[Head():] is elements 1..head; vtable holds the position of each
\* slot's word, 0 for a slot that was not written.
NewBuilder ==
  [Bytes |-> <<>>, head |-> 0, vtable |-> [s \in SlotSet |-> 0]]

Place(b, w) ==
  [b EXCEPT !.Bytes = IF b.head + 1 <= Len(b.Bytes)
                        THEN [b.Bytes EXCEPT ![b.head + 1] = w]
                        ELSE Append(b.Bytes, w),
            !.head = b.head + 1]

DataStart(b) == [b EXCEPT !.vtable = [s \in SlotSet |-> 0]]

\* DataAdd<slot>(b, x): PrependInt64Slot writes nothing for the default 0.
DataAdd(b, slot, x) ==
  IF x = 0 THEN b
  ELSE [Place(b, [slot |-> slot, val |-> x]) EXCEPT !.vtable[slot] = b.head + 1]

\* b.Finish(DataEnd(b)): the vtable, one entry per slot in schema order.
Finish(b) ==
  LET vt == [k \in 1..Len(Slots) |-> [slot |-> "vt", val |-> b.vtable[Slots[k]]]]
  IN  [b EXCEPT !.Bytes = SubSeq(b.Bytes, 1, b.head) \o vt
                            \o SubSeq(b.Bytes, b.head + Len(Slots) + 1, Len(b.Bytes)),
                !.head = b.head + Len(Slots)]

\* The builder when bldr.Reset() is left out.
Reset_Forgotten(b) == b

\* b.Reset(): the backing array is kept and will be written again.
Reset(b) == [b EXCEPT !.head = 0, !.vtable = [s \in SlotSet |-> 0]]

\* b.Bytes[b.Head():] as a value.
FinishedBytes(b) == SubSeq(b.Bytes, 1, b.head)

SlotIndex(s) == CHOOSE k \in 1..Len(Slots) : Slots[k] = s

\* The accessor of a slot of GetRootAsData(p, 0): the default 0 when the
\* vtable holds no position for it.
DataField(p, s) ==
  LET off == p[Len(p) - Len(Slots) + SlotIndex(s)].val
  IN  IF off = 0 THEN 0 ELSE p[off].val

\* Deserialize with the field Cached read from the slot MemAvailable.
Deserialize_CachedFromMemAvailable(p) ==
  [s \in SlotSet |-> DataField(p, IF s = "Cached" THEN "MemAvailable" ELSE s)]

Deserialize(p) == [s \in SlotSet |-> DataField(p, s)]

RECURSIVE AddFields(_, _, _)
AddFields(b, i, k) ==
  IF k > Len(Slots) THEN b
  ELSE AddFields(DataAdd(b, Slots[k], i[Slots[k]]), i, k + 1)

Serialize(i) == FinishedBytes(Finish(AddFields(DataStart(NewBuilder), i, 1)))

\* GetData() with an empty Info serialized when GetInfo returned an error.
GetData_SerializesOnError(r) ==
  [err |-> r.err, val |-> Serialize(IF r.err # "" THEN Info ELSE r.val[1])]

\* GetData() on the result r = [err, val] of its call of GetInfo: nil and the
\* error, or the bytes of inf.Serialize() and no error.
GetData(r) ==
  IF r.err # "" THEN [err |-> r.err, val |-> Nil]
  ELSE [err |-> "", val |-> Serialize(r.val[1])]

\* ---------------------------------------------------------------- DataTicker

\* The size of the bufio.Reader of DataTicker.
BufSize == 1536

\* The line number at which the scan of a tick stops.
LineCutoff == 16

\* Lines SkipAfter+1 .. SkipBefore-1 are read and not parsed.
SkipAfter == 8
SkipBefore == 15

VARIABLES
  pc,         \* where DataTicker is: in its "select", in a send on errCh
              \* ("errOpen", "errRead", "errConv"), in the send on outCh
              \* ("emit"), "returned" or "panicked"
  l,          \* lines read in the current tick
  pos,        \* position after the ':' of the last line that had one
  val,        \* the temp slice val
  t,          \* timestamp of the current tick
  bldr,       \* the flatbuffers builder
  rd,         \* buf and f: [src, off, filled, reads]; src = 0 before the
              \* first open, reads counts the Reads of f
  handles,    \* number of handles on /proc/meminfo that are open
  tickReady,  \* a tick waits in ticker.C
  stopped,    \* ticker.Stop() was called
  now,        \* the clock
  ticks,      \* ticks the runtime has fired
  done,       \* the done channel: "open", "closed", or "sending" when a
              \* sender offers a value
  closeCount, \* number of close(outCh) so far
  outRecv,    \* what the consumer of outCh received: [len, snap, t] each, the
              \* slice (the first len words of the builder's array), a copy of
              \* its bytes at the receive, and the tick's timestamp
  errRecv,    \* what the consumer of errCh received: [op, t] each, the Op of
              \* the error and the timestamp of the tick that sent it
  tickLog,    \* per tick taken by the loop: [t, src], src = 0 if open failed
  call,       \* a call of GetInfo or GetData: [fn, pc, src, readErr, readAt,
              \* p, f, iters, ret]; pc is "idle", "read" (ReadFile returned),
              \* "scan" (in the for loop, iters iterations begun so far) or
              \* "ret" (returned ret = [err, val])
  codec       \* a call of Serialize and of Deserialize on its result:
              \* [pc, s, p, d], the Info s, its bytes p and the Info d read
              \* back; pc is "idle", "enc" or "dec"

vars ==
  <<pc, l, pos, val, t, bldr, rd, handles, tickReady, stopped, now, ticks,
    done, closeCount, outRecv, errRecv, tickLog, call, codec>>

tickerLocals == <<l, pos, val, t, bldr, rd, handles>>
environment == <<tickReady, stopped, now, ticks, done>>
observed == <<outRecv, errRecv, tickLog>>
oneShot == <<call, codec>>

Init ==
  /\ pc = "select"
  /\ l = 0 /\ pos = 0 /\ val = <<>> /\ t = 0
  /\ bldr = NewBuilder
  /\ rd = [src |-> 0, off |-> 0, filled |-> FALSE, reads |-> 0]
  /\ handles = 0
  /\ tickReady = FALSE /\ stopped = FALSE /\ now = 0 /\ ticks = 0
  /\ done = "open"
  /\ closeCount = 0
  /\ outRecv = <<>> /\ errRecv = <<>> /\ tickLog = <<>>
  /\ call = [fn |-> "", pc |-> "idle", src |-> 0, readErr |-> FALSE,
             readAt |-> 0, p |-> 0, f |-> Info, iters |-> 0,
             ret |-> [err |-> "", val |-> Nil]]
  /\ codec = [pc |-> "idle", s |-> Info, p |-> Nil, d |-> Nil]

\* bytes.IndexByte(content[off:], '\n') of every content and offset.
NewlineFrom ==
  [i \in SourceIds |->
     [off \in 0..Len(Sources[i]) |-> IndexByte(Sources[i], off, "\n")]]

\* buf.ReadSlice('\n') on the reader r.  The buffer is filled by Reads of f:
\* the first returns the content, the next the end of the file; failRead is
\* the number of the Read of this tick that fails, 0 if none does.
\* [err, line, rd]: err is "" with a line that ends in '\n', "EOF" at the end
\* of the content, "io" or "bufferfull".
ReadSlice(r, failRead) ==
  LET content == Sources[r.src]
      o == NewlineFrom[r.src][r.off]
      hasLine == o >= 0 /\ o < BufSize
      full == Len(content) - r.off >= BufSize
      lineOut(n) == [err |-> "", line |-> Slice(content, r.off, r.off + o + 1),
                     rd |-> [r EXCEPT !.off = r.off + o + 1, !.filled = TRUE,
                                      !.reads = r.reads + n]]
      errOut(e, n) == [err |-> e, line |-> <<>>,
                       rd |-> [r EXCEPT !.reads = r.reads + n]]
      eofOut(n) == [err |-> "EOF", line |-> <<>>,
                    rd |-> [r EXCEPT !.off = Len(content), !.filled = TRUE,
                                     !.reads = r.reads + n]]
  IN  IF r.filled
        THEN IF hasLine THEN lineOut(0)
             ELSE IF full THEN errOut("bufferfull", 0)
             ELSE IF failRead = r.reads + 1 THEN errOut("io", 1)
             ELSE eofOut(1)
      ELSE IF failRead = r.reads + 1 THEN errOut("io", 1)
      ELSE IF hasLine THEN lineOut(1)
      ELSE IF full THEN errOut("bufferfull", 1)
      ELSE IF failRead = r.reads + 2 THEN errOut("io", 2)
      ELSE eofOut(2)

\* The chain of ifs at the end of the scan: the slot a name is added to,
\* "" for a name that matches none.
TickerSlot(name) ==
  CASE name = memTotal -> "MemTotal"
    [] name = memFree -> "MemFree"
    [] name = memAvailable -> "MemAvailable"
    [] name = buffers -> "Buffers"
    [] name = cached -> "MemAvailable"
    [] name = swapCached -> "SwapCached"
    [] name = active -> "Active"
    [] name = inactive -> "Inactive"
    [] name = swapTotal -> "SwapTotal"
    [] name = swapFree -> "SwapFree"
    [] OTHER -> ""

\* The key loop: everything up to the ':' is appended to val and pos is set
\* after the ':'; without a ':' the whole line is appended and pos is kept.
KeyScan(line, val0, pos0) ==
  LET c == IndexByte(line, 0, ":")
  IN  IF c >= 0 THEN [name |-> val0 \o Slice(line, 0, c), pos |-> c + 1]
      ELSE [name |-> val0 \o line, pos |-> pos0]

\* "skip all spaces": pos moves to the first byte of line[pos:] that is not a
\* space, and stays if there is none.
SkipSpaces(line, p) ==
  LET NS == {k \in p..(Len(line) - 1) : At(line, k) # " "}
  IN  IF NS # {} THEN Min(NS) ELSE p

\* "grab the numbers": the bytes from pos up to a space or '\r'.
GrabNumber(line, p) ==
  LET SD == {k \in p..(Len(line) - 1) : At(line, k) \in {" ", "\r"}}
  IN  Slice(line, p, IF SD # {} THEN Min(SD) ELSE Len(line))

\* One line through the key loop, the space loop, the number loop and
\* strconv.Atoi: [panic, name, pos, val, conv].  line[pos:] panics when pos
\* is beyond the line; val keeps the bytes that did not convert.
ParseLine(line, val0, pos0) ==
  LET k == KeyScan(line, val0, pos0)
  IN  IF k.pos > Len(line)
        THEN [panic |-> TRUE, name |-> k.name, pos |-> k.pos, val |-> <<>>,
              conv |-> [err |-> "", v |-> 0]]
      ELSE
        LET p2 == SkipSpaces(line, k.pos)
            num == GrabNumber(line, p2)
            conv == Atoi(num)
        IN  [panic |-> FALSE, name |-> k.name, pos |-> p2,
             val |-> IF conv.err # "" THEN num ELSE <<>>, conv |-> conv]

\* The inner for loop from the state sc = [st, l, pos, val, bldr, rd, open] up
\* to the point where DataTicker leaves it or waits in a send: st is "break"
\* (l == 16 or io.EOF), "errRead", "errConv" or "panic"; open counts the
\* open handles, f included.
RECURSIVE Scan(_, _)
Scan(sc, failRead) ==
  IF sc.l = LineCutoff THEN [sc EXCEPT !.st = "break"]
  ELSE
    LET r == ReadSlice(sc.rd, failRead)
    IN  IF r.err = "EOF" THEN [sc EXCEPT !.st = "break", !.rd = r.rd]
        ELSE IF r.err # "" THEN [sc EXCEPT !.st = "errRead", !.rd = r.rd]
        ELSE IF sc.l + 1 > SkipAfter /\ sc.l + 1 < SkipBefore
          THEN Scan([sc EXCEPT !.l = sc.l + 1, !.rd = r.rd], failRead)
        ELSE
          LET q == ParseLine(r.line, sc.val, sc.pos)
              slot == TickerSlot(q.name)
              read == [sc EXCEPT !.l = sc.l + 1, !.rd = r.rd, !.pos = q.pos,
                                 !.val = q.val]
          IN  IF q.panic THEN [read EXCEPT !.st = "panic"]
              ELSE IF q.conv.err # "" THEN [read EXCEPT !.st = "errConv"]
              ELSE Scan([read EXCEPT !.bldr = IF slot = "" THEN sc.bldr
                                              ELSE DataAdd(sc.bldr, slot, q.conv.v)],
                        failRead)

\* The ticks so far on which os.Open succeeded.
Opens == Cardinality({i \in 1..Len(tickLog) : tickLog[i].src # 0})

\* ---- the environment: the runtime's ticker, the caller's done channel

\* The runtime fires a tick: ticker.C holds at most one, a further one is
\* dropped.  Time passes between two ticks.
TickFire ==
  /\ ~stopped /\ ticks < MaxTicks
  /\ ticks' = ticks + 1 /\ now' = now + 1 /\ tickReady' = TRUE
  /\ UNCHANGED <<pc, tickerLocals, stopped, done, closeCount, observed, oneShot>>

\* The caller closes done.
CloseDone ==
  /\ done = "open"
  /\ done' = "closed"
  /\ UNCHANGED <<pc, tickerLocals, tickReady, stopped, now, ticks, closeCount,
                 observed, oneShot>>

\* The caller starts to send struct{} on done.
SendDone ==
  /\ done = "open"
  /\ done' = "sending"
  /\ UNCHANGED <<pc, tickerLocals, tickReady, stopped, now, ticks, closeCount,
                 observed, oneShot>>

\* ---- DataTicker

\* case <-done: return, and the deferred close(outCh) and ticker.Stop().
SelectDone ==
  /\ pc = "select" /\ done # "open"
  /\ pc' = "returned"
  /\ done' = IF done = "sending" THEN "open" ELSE done
  /\ closeCount' = closeCount + 1
  /\ stopped' = TRUE
  /\ UNCHANGED <<tickerLocals, tickReady, now, ticks, observed, oneShot>>

\* case <-ticker.C, os.Open fails: the loop goes on to send the error.
TickOpenFails ==
  /\ pc = "select" /\ tickReady
  /\ tickReady' = FALSE
  /\ t' = now
  /\ tickLog' = Append(tickLog, [t |-> now, src |-> 0])
  /\ pc' = "errOpen"
  /\ UNCHANGED <<l, pos, val, bldr, rd, handles, stopped, now, ticks, done,
                 closeCount, outRecv, errRecv, oneShot>>

\* Where the scan sc left DataTicker: after a break f.Close() and
\* bldr.Finish(DataEnd(bldr)), and the loop waits to send
\* bldr.Bytes[bldr.Head():] on outCh; a panic runs the deferred
\* close(outCh) and ticker.Stop(); otherwise the loop waits to send an error.
AfterScan(sc) ==
  /\ l' = sc.l /\ pos' = sc.pos /\ val' = sc.val /\ rd' = sc.rd
  /\ bldr' = IF sc.st = "break" THEN Finish(sc.bldr) ELSE sc.bldr
  /\ handles' = IF sc.st = "break" THEN sc.open - 1 ELSE sc.open
  /\ pc' = CASE sc.st = "break" -> "emit"
             [] sc.st = "panic" -> "panicked"
             [] OTHER -> sc.st
  /\ closeCount' = IF sc.st = "panic" THEN closeCount + 1 ELSE closeCount
  /\ stopped' = (stopped \/ sc.st = "panic")

\* case <-ticker.C, os.Open succeeds on the content src: buf.Reset(f),
\* DataStart, DataAddTimestamp of the time ts and the scan.
TickOpenAt(src, failRead, ts) ==
  /\ pc = "select" /\ tickReady /\ Opens < MaxOpens
  /\ tickReady' = FALSE
  /\ t' = ts
  /\ tickLog' = Append(tickLog, [t |-> ts, src |-> src])
  /\ AfterScan(Scan([st |-> "", l |-> l, pos |-> pos, val |-> val,
                     bldr |-> DataAdd(DataStart(bldr), "Timestamp", ts),
                     rd |-> [src |-> src, off |-> 0, filled |-> FALSE,
                             reads |-> 0],
                     open |-> handles + 1],
                    failRead))
  /\ UNCHANGED <<now, ticks, done, outRecv, errRecv, oneShot>>

\* The tick without its reading of the clock: t keeps the value it had.
TickOpen_StaleTimestamp(src, failRead) == TickOpenAt(src, failRead, t)

\* The tick as the code runs it: t = time.Now().UTC().UnixNano() in the tick.
TickOpen(src, failRead) == TickOpenAt(src, failRead, now)

\* errCh <- joe.Error{Op: "open /proc/meminfo"} is received; continue.
SendErrOpen ==
  /\ pc = "errOpen"
  /\ errRecv' = Append(errRecv, [op |-> "open", t |-> t])
  /\ pc' = "select"
  /\ UNCHANGED <<tickerLocals, environment, closeCount, outRecv, tickLog,
                 oneShot>>

\* errCh <- joe.Error{Op: "read command results"} is received; break.
SendErrRead ==
  /\ pc = "errRead"
  /\ errRecv' = Append(errRecv, [op |-> "read", t |-> t])
  /\ AfterScan([st |-> "break", l |-> l, pos |-> pos, val |-> val,
                bldr |-> bldr, rd |-> rd, open |-> handles])
  /\ UNCHANGED <<t, tickReady, now, ticks, done, outRecv, tickLog, oneShot>>

\* errCh <- joe.Error{Op: "convert to int"} is received; continue with the
\* next line.
SendErrConv(failRead) ==
  /\ pc = "errConv"
  /\ errRecv' = Append(errRecv, [op |-> "convert", t |-> t])
  /\ AfterScan(Scan([st |-> "", l |-> l, pos |-> pos, val |-> val,
                     bldr |-> bldr, rd |-> rd, open |-> handles], failRead))
  /\ UNCHANGED <<t, tickReady, now, ticks, done, outRecv, tickLog, oneShot>>

\* outCh <- data is received (a send on a closed channel panics), then
\* bldr.Reset() and l = 0.
SendOut ==
  /\ pc = "emit"
  /\ IF closeCount > 0
       THEN /\ pc' = "panicked"
            /\ closeCount' = closeCount + 1
            /\ stopped' = TRUE
            /\ UNCHANGED <<tickerLocals, tickReady, now, ticks, done, observed,
                           oneShot>>
       ELSE /\ outRecv' = Append(outRecv,
                                 [len |-> bldr.head, snap |-> FinishedBytes(bldr),
                                  t |-> t])
            /\ bldr' = Reset(bldr)
            /\ l' = 0
            /\ pc' = "select"
            /\ UNCHANGED <<pos, val, t, rd, handles, environment, closeCount,
                           errRecv, tickLog, oneShot>>

Next ==
  \/ TickFire
  \/ CloseDone
  \/ SendDone
  \/ SelectDone
  \/ TickOpenFails
  \/ \E src \in SourceIds, failRead \in 0..2 : TickOpen(src, failRead)
  \/ SendErrOpen
  \/ SendErrRead
  \/ \E failRead \in 0..2 : SendErrConv(failRead)
  \/ SendOut

Spec == Init /\ [][Next]_vars

\* A select whose done case is ready again and again takes it in the end.
\* Nothing makes a consumer receive from outCh or errCh.
FairSpec == Spec /\ SF_vars(SelectDone)

\* ---------------------------------------------------------------- one-shot calls

\* The largest reading of the clock while a one-shot call runs.
MaxClock == 2

\* The Infos handed to Serialize: field number k holds SampleBase + k or 0.
SampleBase == 100

InfoSet ==
  {[s \in SlotSet |-> IF s \in Z THEN 0 ELSE SampleBase + SlotIndex(s)] :
     Z \in SUBSET SlotSet}

\* The state of DataTicker and of its channels, the clock aside.
ticking ==
  <<pc, tickerLocals, tickReady, stopped, ticks, done, closeCount, observed>>

\* What the call of fn returns when GetInfo returns r.
Return(fn, r) == IF fn = "GetData" THEN GetData(r) ELSE r

\* Time passes.
ClockAdvance ==
  /\ now < MaxClock
  /\ now' = now + 1
  /\ UNCHANGED <<ticking, oneShot>>

\* GetInfo(), called by fn or as fn: ioutil.ReadFile fails, return nil, err.
ReadFileFails(fn) ==
  /\ call.pc = "idle" /\ codec.pc = "idle"
  /\ call' = [call EXCEPT !.fn = fn, !.pc = "ret", !.readErr = TRUE,
                          !.readAt = now,
                          !.ret = Return(fn, [err |-> "read", val |-> Nil])]
  /\ UNCHANGED <<ticking, now, codec>>

\* GetInfo(): ioutil.ReadFile returns the content src.
ReadFile(fn, src) ==
  /\ call.pc = "idle" /\ codec.pc = "idle"
  /\ call' = [call EXCEPT !.fn = fn, !.pc = "read", !.src = src, !.readAt = now]
  /\ UNCHANGED <<ticking, now, codec>>

\* GetInfo(): f := Info{Timestamp: time.Now().UTC().UnixNano()} and p := 0.
Stamp ==
  /\ call.pc = "read"
  /\ call' = [call EXCEPT !.pc = "scan", !.p = 0,
                          !.f = [Info EXCEPT !.Timestamp = now]]
  /\ UNCHANGED <<ticking, now, codec>>

\* GetInfo(): one iteration of the for loop; on the break return &f, nil, on
\* an error of ParseUint return nil, err.
GetInfoIter ==
  /\ call.pc = "scan"
  /\ LET r == GetInfoStep(OneShotSources[call.src], call.p, call.f)
     IN  call' =
           CASE r.st = "next" ->
                  [call EXCEPT !.p = r.p, !.f = r.f, !.iters = call.iters + 1]
             [] r.st = "err" ->
                  [call EXCEPT !.pc = "ret", !.iters = call.iters + 1,
                               !.ret = Return(call.fn, [err |-> r.err, val |-> Nil])]
             [] OTHER ->
                  [call EXCEPT !.pc = "ret", !.iters = call.iters + 1,
                               !.ret = Return(call.fn, [err |-> "", val |-> <<call.f>>])]
  /\ UNCHANGED <<ticking, now, codec>>

\* i.Serialize() on an Info i.
SerializeCall(i) ==
  /\ call.pc = "idle" /\ codec.pc = "idle"
  /\ codec' = [pc |-> "enc", s |-> i, p |-> Serialize(i), d |-> Nil]
  /\ UNCHANGED <<ticking, now, call>>

\* Deserialize(p) on the bytes Serialize returned.
DeserializeCall ==
  /\ codec.pc = "enc"
  /\ codec' = [codec EXCEPT !.pc = "dec", !.d = <<Deserialize(codec.p)>>]
  /\ UNCHANGED <<ticking, now, call>>

OneShotNext ==
  \/ ClockAdvance
  \/ \E fn \in {"GetInfo", "GetData"} : ReadFileFails(fn)
  \/ \E fn \in {"GetInfo", "GetData"}, src \in OneShotIds : ReadFile(fn, src)
  \/ Stamp
  \/ GetInfoIter
  \/ \E i \in InfoSet : SerializeCall(i)
  \/ DeserializeCall

OneShotSpec == Init /\ [][OneShotNext]_vars

\* ---------------------------------------------------------------- observations

\* The bytes the consumer sees now in the k-th slice it received.
View(k) == SubSeq(bldr.Bytes, 1, outRecv[k].len)

\* The k-th emission as received, decoded.
Emitted(k) == Deserialize(outRecv[k].snap)

\* The tick of the timestamp ts.
TickOf(ts) == CHOOSE e \in {tickLog[i] : i \in 1..Len(tickLog)} : e.t = ts

\* The content the k-th emission was parsed from.
SrcOf(k) == TickOf(outRecv[k].t).src

\* The tick of the k-th emission met no error of ReadSlice.
CleanRead(k) ==
  \A i \in 1..Len(errRecv) :
    ~(errRecv[i].op = "read" /\ errRecv[i].t = outRecv[k].t)

\* Two Infos agree on every field but Timestamp.
SameFields(a, b) == \A i \in 1..Len(MemFields) : a[MemFields[i]] = b[MemFields[i]]

Blocked == pc \in {"errOpen", "errRead", "errConv", "emit"}

\* ---------------------------------------------------------------- claims

\* C1: once the done channel is closed, or a value is offered on it,
\* DataTicker eventually returns, and the out channel is then closed.
C1_DoneLeadsToReturn == (done # "open") ~> (pc = "returned" /\ closeCount = 1)

\* C2: the sends on the out channel and on the error channel are raced with
\* the cancellation wait: whenever the loop waits in a send and done is
\* signaled, the loop can take the done case, exit and close the out channel.
C2_SendsRaceDone == (Blocked /\ done # "open") => ENABLED SelectDone

\* C3: the bytes the consumer received for a tick stay as they were received,
\* through every later step of DataTicker.
C3_ConsumerOwnsBytes == \A k \in 1..Len(outRecv) : View(k) = outRecv[k].snap

\* C4: the out channel is closed at most once, and it is closed only when
\* DataTicker has returned after taking the done case of its select (no
\* send follows, since a returned loop sends nothing).
C4_ClosedOnceOnDone == closeCount <= 1 /\ (closeCount = 1 => pc = "returned")

\* The timestamps of the entries of a log.
Stamps(log) == [k \in 1..Len(log) |-> log[k].t]

Opened(e) == e.src # 0

OpenFailed(e) == e.src = 0

IsOpenErr(e) == e.op = "open"

\* The ticks DataTicker is through: all of tickLog but the tick it is in.
TicksOver == IF pc \in {"select", "returned"} THEN tickLog
             ELSE SubSeq(tickLog, 1, Len(tickLog) - 1)

\* The ticks that came to an end, a tick ended by a panic included.
TicksEnded == IF pc \in {"select", "returned", "panicked"} THEN tickLog
              ELSE SubSeq(tickLog, 1, Len(tickLog) - 1)

\* C5: in a run in which opening the source fails on some tick, every tick
\* that failed to open put exactly one entry on the error channel and
\* emitted nothing, and every other tick emitted exactly one snapshot, in
\* tick order.
C5_FailedTickOnlyReports ==
  (\E i \in 1..Len(TicksEnded) : OpenFailed(TicksEnded[i])) =>
    /\ Stamps(SelectSeq(errRecv, IsOpenErr)) = Stamps(SelectSeq(TicksEnded, OpenFailed))
    /\ \A i \in 1..Len(errRecv) :
         OpenFailed(TickOf(errRecv[i].t)) => IsOpenErr(errRecv[i])
    /\ Stamps(outRecv) = Stamps(SelectSeq(TicksEnded, Opened))

\* What the example buffer and the head of /proc/meminfo say, label by label.
C6_Expected ==
  <<[Info EXCEPT !.MemTotal = 16384000, !.MemFree = 512000, !.Cached = 2048000],
    [Info EXCEPT !.MemTotal = 91, !.MemFree = 92, !.MemAvailable = 93,
                 !.Buffers = 94, !.Cached = 95, !.SwapCached = 96,
                 !.Active = 97, !.Inactive = 98, !.SwapTotal = 81,
                 !.SwapFree = 82]>>

\* C6: a line "L: v kB" of a known label L sets field L to v and no other
\* field, and an absent label leaves its field 0: so says every snapshot
\* DataTicker emits for a buffer of such lines, and so says GetInfo over the
\* same buffer.
C6_LabelSetsItsField ==
  \A k \in 1..Len(outRecv) :
    (SrcOf(k) \in {1, 2} /\ CleanRead(k)) =>
      /\ SameFields(Emitted(k), C6_Expected[SrcOf(k)])
      /\ GetInfoOf[SrcOf(k)].err = ""
      /\ SameFields(GetInfoOf[SrcOf(k)].info[1], C6_Expected[SrcOf(k)])

\* What SrcNoDigits and SrcTooLarge say when a value that does not convert
\* counts as 0.
C7_Expected == [Info EXCEPT !.MemTotal = 16, !.Buffers = 3]

\* C7: a line without digits, or with a value too large, leaves its field 0
\* and every other line of the buffer is parsed with its own label and value:
\* so says the snapshot DataTicker emits for such a buffer, and so says
\* GetInfo over the same buffer, which returns no error.
C7_BadValueIsZero ==
  \A k \in 1..Len(outRecv) :
    (SrcOf(k) \in {4, 5} /\ CleanRead(k)) =>
      /\ SameFields(Emitted(k), C7_Expected)
      /\ GetInfoOf[SrcOf(k)].err = ""
      /\ SameFields(GetInfoOf[SrcOf(k)].info[1], C7_Expected)

\* C8: two ticks over the same content emit the same field values, whatever
\* earlier ticks parsed.
C8_SameContentSameFields ==
  \A j, k \in 1..Len(outRecv) :
    (SrcOf(j) = SrcOf(k) /\ CleanRead(j) /\ CleanRead(k)) =>
      SameFields(Emitted(j), Emitted(k))

\* C9: a buffer with a line of an unknown label between known ones yields
\* the snapshot of the buffer without that line: the snapshots DataTicker
\* emits for the two buffers agree, and so do the results of GetInfo.
C9_UnknownLabelIgnored ==
  \A j, k \in 1..Len(outRecv) :
    (SrcOf(j) = 2 /\ SrcOf(k) = 3 /\ CleanRead(j) /\ CleanRead(k)) =>
      /\ SameFields(Emitted(j), Emitted(k))
      /\ SameFields(GetInfoOf[3].info[1], GetInfoOf[2].info[1])

\* C10: the timestamps of the emissions increase strictly, the emissions are
\* those of the ticks that opened the source and were gone through, one
\* each and in their order, and each emission carries the one snapshot of
\* its tick.
C10_EmittedInTimestampOrder ==
  /\ \A j, k \in 1..Len(outRecv) : j < k => outRecv[j].t < outRecv[k].t
  /\ Stamps(outRecv) = Stamps(SelectSeq(TicksOver, Opened))
  /\ \A k \in 1..Len(outRecv) : Emitted(k).Timestamp = outRecv[k].t

\* Two ticks emitted, with a tick whose open failed between them.
C10_Witness ==
  /\ Len(tickLog) = 3 /\ OpenFailed(tickLog[2])
  /\ Len(outRecv) = 2
  /\ pc = "select"

\* C11: Deserialize(Serialize(s)) equals s field for field, for every Info s,
\* the all-zero Info and Infos with some fields zero and others not included.
C11_RoundTrip == codec.pc = "dec" => codec.d[1] = codec.s

\* An Info with MemFree zero and Cached not zero went through both.
C11_Witness ==
  /\ codec.pc = "dec"
  /\ codec.s.MemFree = 0 /\ codec.s.Cached # 0 /\ codec.s.Timestamp # 0

\* C12: a call of GetInfo or GetData that returned gave either a result and
\* no error or no result and an error, the latter whenever reading the
\* source failed.
C12_ResultOrError ==
  call.pc = "ret" =>
    /\ \/ call.ret.err = "" /\ call.ret.val # Nil
       \/ call.ret.err # "" /\ call.ret.val = Nil
    /\ call.readErr => (call.ret.err # "" /\ call.ret.val = Nil)

\* GetData returned after its read of the source failed.
C12_Witness == call.pc = "ret" /\ call.fn = "GetData" /\ call.readErr

\* The number of lines of a content.
NumLines(buf) == Cardinality({k \in 1..Len(buf) : buf[k] = "\n"})

\* C13: a tick over a source of more lines than the cutoff of the scan puts
\* an entry on the error channel: the emission of such a tick comes with an
\* error of the same tick.
C13_CutoffReported ==
  \A k \in 1..Len(outRecv) :
    (NumLines(Sources[SrcOf(k)]) > LineCutoff /\ CleanRead(k)) =>
      \E i \in 1..Len(errRecv) : errRecv[i].t = outRecv[k].t

\* C14: the snapshot DataTicker emits for a tick that read its source
\* without error has the field values GetInfo returns for the same buffer.
C14_PathsAgree ==
  \A k \in 1..Len(outRecv) :
    (CleanRead(k) /\ GetInfoOf[SrcOf(k)].err = "") =>
      SameFields(Emitted(k), GetInfoOf[SrcOf(k)].info[1])

\* C15: no tick has both an I/O error on the error channel (from opening the
\* source or from reading a line) and an emission.
C15_ErrorOrEmission ==
  \A k \in 1..Len(outRecv) : \A i \in 1..Len(errRecv) :
    errRecv[i].t = outRecv[k].t => errRecv[i].op \notin {"open", "read"}

\* C16: no evaluation of line[pos:] finds pos beyond the line: the scan never
\* ends DataTicker by a panic.
C16_SliceInBounds == pc # "panicked"

C18_StampedBeforeRead ==
  /\ (call.pc \in {"scan", "ret"} /\ ~call.readErr) =>
       call.f.Timestamp <= call.readAt
  /\ \A k \in 1..Len(outRecv) : Emitted(k).Timestamp = outRecv[k].t

\* C19: whenever DataTicker waits in its select, l is 0, the builder is in
\* its reset state and no handle is open; the handle of a tick is closed
\* before the tick's emission, and at most one handle is open at any time.
C19_ResetAtSelect ==
  /\ pc = "select" =>
       /\ l = 0
       /\ bldr.head = 0 /\ bldr.vtable = NewBuilder.vtable
       /\ handles = 0
  /\ pc = "emit" => handles = 0
  /\ handles <= 1

\* Back in the select after a tick that met a read error and emitted.
C19_Witness ==
  /\ pc = "select"
  /\ Len(outRecv) = 1
  /\ \E i \in 1..Len(errRecv) : errRecv[i].op = "read"

====
